---- MODULE Spec2Model ----
(***************************************************************************)
(* Model of the two scripts of the repository:                             *)
(*                                                                         *)
(*   fix-server-imports.py  the import rewriter: walks a directory, applies *)
(*                          the ordered substitution rules to every .rs    *)
(*                          file and overwrites the files that changed;    *)
(*   test-direct-mcp.py     the smoke tester: spawns a subprocess and      *)
(*                          exchanges three JSON-RPC lines with it.        *)
(*                                                                         *)
(* File text is a sequence of tokens.  Every rule's pattern is a literal   *)
(* (its only regex escapes are \{ and \}), so a pattern is a sequence of   *)
(* tokens and re.sub is leftmost, non-overlapping literal replacement.     *)
(* The tokens are cut so that every overlap between two patterns, and      *)
(* between a pattern and a replacement, falls on a token boundary.         *)
(***************************************************************************)
EXTENDS Integers, Sequences, FiniteSets, TLC

\* ------------------------------------------------------------------ tokens
Use == "use "
Crate == "crate::"
Core == "mcp_proxy_core::"
ErrorMod == "error::"
ConfigMod == "config::"
TransportMod == "transport::"
ProtocolMod == "protocol::"
Semi == ";"
\* any text in which no pattern starts or ends (a newline, another statement)
OtherText == "..."

\* ------------------------------------------------------------------ bounds
\* files under the scan root in Spec
NumFiles == 2
\* fragments concatenated into the text of the file in SpecRewrite
MaxFrags == 2
\* runs of the script over the same tree in SpecRewrite
MaxRuns == 2
\* response lines the subprocess is willing to write in SpecTest
MaxQuota == 3

\* ------------------------------------------------------- fix-server-imports
\* The ordered rule list: << pattern, replacement >> pairs.
replacements ==
  << << <<Use, Crate, ErrorMod, "Result", Semi>>,
        <<Use, Core, "Result", Semi>> >>,
     << <<Use, Crate, ErrorMod, "{Result, ServerError}", Semi>>,
        <<Use, Core, "{Result, error::ServerError}", Semi>> >>,
     << <<Use, Crate, ErrorMod, "{ProxyError, Result}", Semi>>,
        <<Use, Core, "{ProxyError, Result}", Semi>> >>,
     << <<Use, Crate, ErrorMod, "HealthError", Semi>>,
        <<Use, Core, ErrorMod, "HealthError", Semi>> >>,
     << <<Use, Crate, ErrorMod, "ProxyError", Semi>>,
        <<Use, Core, "ProxyError", Semi>> >>,
     << <<Use, Crate, ConfigMod, "ServerConfig", Semi>>,
        <<Use, Core, ConfigMod, "ServerConfig", Semi>> >>,
     << <<Use, Crate, ConfigMod, "Config", Semi>>,
        <<Use, Core, "Config", Semi>> >>,
     << <<Use, Crate, ConfigMod>>,
        <<Use, Core, ConfigMod>> >>,
     << <<Use, Crate, TransportMod, "{create_transport, Transport}", Semi>>,
        <<Use, Core, TransportMod, "{create_transport, Transport}", Semi>> >>,
     << <<Use, Crate, TransportMod>>,
        <<Use, Core, TransportMod>> >>,
     << <<Use, Crate, ProtocolMod,
          "{mcp, JsonRpcId, JsonRpcMessage, JsonRpcV2Message}", Semi>>,
        <<Use, Core, ProtocolMod,
          "{mcp, JsonRpcId, JsonRpcMessage, JsonRpcV2Message}", Semi>> >>,
     << <<Use, Crate, ProtocolMod>>,
        <<Use, Core, ProtocolMod>> >>,
     << <<Crate, ErrorMod, "ProxyError">>,
        <<Core, "ProxyError">> >>,
     << <<Crate, ErrorMod, "ConfigError">>,
        <<Core, ErrorMod, "ConfigError">> >>,
     << <<Crate, ErrorMod, "ServerError">>,
        <<Core, ErrorMod, "ServerError">> >>,
     << <<Crate, ConfigMod, "Config">>,
        <<Core, "Config">> >>,
     << <<Crate, ConfigMod, "validate">>,
        <<Core, ConfigMod, "validate">> >>,
     << <<Crate, TransportMod, "pool::ConnectionPool">>,
        <<Core, TransportMod, "pool::ConnectionPool">> >> >>

NumRules == Len(replacements)
Pattern(r) == replacements[r][1]

\* The validate rule written with a replacement that still holds a "before" form.
ReplacementKeepsCrate(r) ==
  IF Pattern(r) = <<Crate, ConfigMod, "validate">>
  THEN <<Core, Crate, ConfigMod, "Config">>
  ELSE replacements[r][2]

Replacement(r) == replacements[r][2]

\* pattern occurs in text at position i
MatchAt(text, pattern, i) ==
  /\ i + Len(pattern) - 1 <= Len(text)
  /\ \A k \in 1..Len(pattern) : text[i + k - 1] = pattern[k]

\* re.search(pattern, text) is not None
Occurs(pattern, text) == \E i \in 1..Len(text) : MatchAt(text, pattern, i)

\* re.sub with count=1: only the leftmost occurrence is replaced.
ReSubFirstOnly(pattern, repl, text) ==
  IF Occurs(pattern, text)
  THEN LET i == CHOOSE j \in 1..Len(text) :
                  /\ MatchAt(text, pattern, j)
                  /\ \A h \in 1..(j - 1) : ~MatchAt(text, pattern, h)
       IN SubSeq(text, 1, i - 1) \o repl
            \o SubSeq(text, i + Len(pattern), Len(text))
  ELSE text

\* re.sub(pattern, repl, text): every non-overlapping occurrence, leftmost first
\* (rest[i] is the result for the text from position i on)
ReSub(pattern, repl, text) ==
  LET rest[i \in 1..(Len(text) + 1)] ==
        IF i > Len(text) THEN << >>
        ELSE IF MatchAt(text, pattern, i)
             THEN repl \o rest[i + Len(pattern)]
             ELSE <<text[i]>> \o rest[i + 1]
  IN rest[1]

\* the for loop of fix_imports over the whole list
\* (after[r] is content once the first r rules have been applied; the set of
\* one element has it computed once)
ApplyRules(text) ==
  LET after[r \in 0..NumRules] ==
        IF r = 0 THEN text
        ELSE CHOOSE out \in { ReSub(Pattern(r), Replacement(r), t) :
                              t \in {after[r - 1]} } : TRUE
  IN after[NumRules]

\* The suffix looked for anywhere in the name.
EndsWithAnywhere(name, suffix) == \E k \in 1..Len(name) : name[k] = suffix

\* file.endswith(suffix), a file name being its dot-separated parts
EndsWith(name, suffix) == Len(name) > 0 /\ name[Len(name)] = suffix

\* names and texts of the files of a tree in Spec
Names == { <<"lib", ".rs">>, <<"lib", ".rs", ".bak">>, <<"notes", ".md">> }
FileTexts ==
  { <<OtherText>>,
    <<Use, Crate, ErrorMod, "Result", Semi>>,
    <<Use, Crate, ConfigMod, "Config", OtherText>> }

\* the text of the file in SpecRewrite: up to MaxFrags fragments, each a
\* pattern or a piece that can start, continue or end one
Fragments ==
  { Pattern(r) : r \in 1..NumRules }
    \cup { <<OtherText>>, <<Use>>, <<Crate>>, <<Core>>, <<Semi>>,
           <<"Config">>, <<"validate">>, <<"ProxyError">>,
           <<"pool::ConnectionPool">> }

RECURSIVE TextsOf(_)
TextsOf(n) ==
  IF n = 0 THEN { << >> }
  ELSE LET shorter == TextsOf(n - 1)
       IN shorter \cup { t \o f : t \in shorter, f \in Fragments }

VARIABLES
  files,        \* the file names os.walk yields, in walk order
  disk,         \* disk[i]: the text of file i on disk
  start,        \* the disk when the current run of the script began
  run,          \* which run of the script this is
  pc,           \* position in main / fix_imports
  idx,          \* the file the walk is at
  original,     \* fix_imports: original
  content,      \* fix_imports: content
  result,       \* fix_imports: the value returned
  fixed_count,  \* main: fixed_count
  opened,       \* files opened for writing in this run
  caught,       \* files whose call ended in the except clause in this run
  log,          \* the lines printed in this run
  reformatted   \* files the formatter has rewritten in this run

rvars == <<files, disk, start, run, pc, idx, original, content, result,
           fixed_count, opened, caught, log, reformatted>>

VARIABLES
  tpc,          \* position in test_mcp_server
  child,        \* the subprocess: "none", "running" or "exited"
  quota,        \* response lines the subprocess writes before it falls silent
  mayExit,      \* whether the subprocess may exit on its own at any moment
  inPipe,       \* lines written to the subprocess's stdin and not yet read by it
  pending,      \* lines the subprocess has read and not yet answered
  outPipe,      \* lines written by the subprocess and not yet read by the script
  emitted,      \* every line the subprocess has written, in order
  stdinClosed,  \* the script has closed proc.stdin
  signalled,    \* the terminate signal has been sent to a running subprocess
  events,       \* the script's completed I/O operations, in order
  printed       \* the responses the script has printed, in order

tvars == <<tpc, child, quota, mayExit, inPipe, pending, outPipe, emitted,
           stdinClosed, signalled, events, printed>>

vars == <<rvars, tvars>>

\* the smoke tester is not running
TestOff ==
  /\ tpc = "off"
  /\ child = "none"
  /\ quota = 0
  /\ mayExit = FALSE
  /\ inPipe = << >>
  /\ pending = << >>
  /\ outPipe = << >>
  /\ emitted = << >>
  /\ stdinClosed = FALSE
  /\ signalled = FALSE
  /\ events = << >>
  /\ printed = << >>

RunStart ==
  /\ run = 1
  /\ pc = "walk"
  /\ idx = 1
  /\ original = << >>
  /\ content = << >>
  /\ result = FALSE
  /\ fixed_count = 0
  /\ opened = {}
  /\ caught = {}
  /\ log = << >>
  /\ reformatted = {}

\* a tree of NumFiles files
Init ==
  /\ files \in [1..NumFiles -> Names]
  /\ disk \in [1..NumFiles -> FileTexts]
  /\ start = disk
  /\ RunStart
  /\ TestOff

\* a tree of one file with any text of up to MaxFrags fragments
InitRewrite ==
  /\ files \in [1..1 -> Names]
  /\ disk \in [1..1 -> TextsOf(MaxFrags)]
  /\ start = disk
  /\ RunStart
  /\ TestOff

\* main, lines 72-76: the next file is a .rs file, fix_imports is called
CallFixImports ==
  /\ pc = "walk"
  /\ idx <= Len(files)
  /\ EndsWith(files[idx], ".rs")
  /\ pc' = "read"
  /\ UNCHANGED <<files, disk, start, run, idx, original, content, result,
                 fixed_count, opened, caught, log, reformatted>>
  /\ UNCHANGED tvars

\* main, lines 73-74: any other file is passed over
SkipFile ==
  /\ pc = "walk"
  /\ idx <= Len(files)
  /\ ~EndsWith(files[idx], ".rs")
  /\ idx' = idx + 1
  /\ UNCHANGED <<files, disk, start, run, pc, original, content, result,
                 fixed_count, opened, caught, log, reformatted>>
  /\ UNCHANGED tvars

\* fix_imports, lines 51-54: the file is read
ReadOk ==
  /\ pc = "read"
  /\ content' = disk[idx]
  /\ original' = disk[idx]
  /\ pc' = "sub"
  /\ UNCHANGED <<files, disk, start, run, idx, result, fixed_count, opened,
                 caught, log, reformatted>>
  /\ UNCHANGED tvars

\* fix_imports, lines 51-52: open or read raises
ReadFail ==
  /\ pc = "read"
  /\ pc' = "except"
  /\ UNCHANGED <<files, disk, start, run, idx, original, content, result,
                 fixed_count, opened, caught, log, reformatted>>
  /\ UNCHANGED tvars

\* fix_imports, lines 55-56: every rule in order
Substitute ==
  /\ pc = "sub"
  /\ content' = ApplyRules(content)
  /\ pc' = "cmp"
  /\ UNCHANGED <<files, disk, start, run, idx, original, result, fixed_count,
                 opened, caught, log, reformatted>>
  /\ UNCHANGED tvars

\* fix_imports, lines 58 and 65: nothing changed, False is returned
ReturnUnchanged ==
  /\ pc = "cmp"
  /\ content = original
  /\ result' = FALSE
  /\ pc' = "ret"
  /\ UNCHANGED <<files, disk, start, run, idx, original, content,
                 fixed_count, opened, caught, log, reformatted>>
  /\ UNCHANGED tvars

\* fix_imports, lines 58-59: open(filepath, "w") truncates the file
OpenOk ==
  /\ pc = "cmp"
  /\ content # original
  /\ disk' = [disk EXCEPT ![idx] = << >>]
  /\ opened' = opened \cup {idx}
  /\ pc' = "write"
  /\ UNCHANGED <<files, start, run, idx, original, content, result,
                 fixed_count, caught, log, reformatted>>
  /\ UNCHANGED tvars

\* fix_imports, lines 58-59: open(filepath, "w") raises
OpenFail ==
  /\ pc = "cmp"
  /\ content # original
  /\ pc' = "except"
  /\ UNCHANGED <<files, disk, start, run, idx, original, content, result,
                 fixed_count, opened, caught, log, reformatted>>
  /\ UNCHANGED tvars

\* fix_imports, lines 60-62: the text is written, the file closed, True returned
WriteOk ==
  /\ pc = "write"
  /\ disk' = [disk EXCEPT ![idx] = content]
  /\ log' = Append(log, <<"Fixed", idx>>)
  /\ result' = TRUE
  /\ pc' = "ret"
  /\ UNCHANGED <<files, start, run, idx, original, content, fixed_count,
                 opened, caught, reformatted>>
  /\ UNCHANGED tvars

\* fix_imports, lines 59-60: write or close raises with any part of the text
\* on disk
WriteFail ==
  /\ pc = "write"
  /\ \E k \in 0..Len(content) :
       disk' = [disk EXCEPT ![idx] = SubSeq(content, 1, k)]
  /\ pc' = "except"
  /\ UNCHANGED <<files, start, run, idx, original, content, result,
                 fixed_count, opened, caught, log, reformatted>>
  /\ UNCHANGED tvars

\* The error is printed and raised again.
ExceptPropagates ==
  /\ pc = "except"
  /\ caught' = caught \cup {idx}
  /\ log' = Append(log, <<"Error", idx>>)
  /\ pc' = "raised"
  /\ UNCHANGED <<files, disk, start, run, idx, original, content, result,
                 fixed_count, opened, reformatted>>
  /\ UNCHANGED tvars

\* fix_imports, lines 63-65: the error is printed, False is returned
Except ==
  /\ pc = "except"
  /\ caught' = caught \cup {idx}
  /\ log' = Append(log, <<"Error", idx>>)
  /\ result' = FALSE
  /\ pc' = "ret"
  /\ UNCHANGED <<files, disk, start, run, idx, original, content,
                 fixed_count, opened, reformatted>>
  /\ UNCHANGED tvars

\* a walk that counts every call, whatever it returned
ReturnCountsEveryCall ==
  /\ pc = "ret"
  /\ fixed_count' = fixed_count + 1
  /\ idx' = idx + 1
  /\ pc' = "walk"
  /\ UNCHANGED <<files, disk, start, run, original, content, result, opened,
                 caught, log, reformatted>>
  /\ UNCHANGED tvars

\* main, lines 76-77: the call is back, the walk goes on
Return ==
  /\ pc = "ret"
  /\ fixed_count' = IF result THEN fixed_count + 1 ELSE fixed_count
  /\ idx' = idx + 1
  /\ pc' = "walk"
  /\ UNCHANGED <<files, disk, start, run, original, content, result, opened,
                 caught, log, reformatted>>
  /\ UNCHANGED tvars

\* main, line 79: the walk is over, the total is printed
Report ==
  /\ pc = "walk"
  /\ idx > Len(files)
  /\ log' = Append(log, <<"Total", fixed_count>>)
  /\ pc' = "fmt"
  /\ UNCHANGED <<files, disk, start, run, idx, original, content, result,
                 fixed_count, opened, caught, reformatted>>
  /\ UNCHANGED tvars

\* main, lines 80-81: cargo fmt --all is run and its status not looked at;
\* it rewrites the layout of whichever Rust sources it finds not laid out
\* its way, and leaves the words of a file, which is all disk holds, alone
RunFormatter ==
  /\ pc = "fmt"
  /\ log' = Append(log, <<"Format", 0>>)
  /\ \E some \in SUBSET {i \in 1..Len(files) : EndsWith(files[i], ".rs")} :
       reformatted' = some
  /\ pc' = "done"
  /\ UNCHANGED <<files, disk, start, run, idx, original, content, result,
                 fixed_count, opened, caught>>
  /\ UNCHANGED tvars

\* the script is started again over the tree the last run left
Rerun ==
  /\ pc = "done"
  /\ run < MaxRuns
  /\ run' = run + 1
  /\ start' = disk
  /\ pc' = "walk"
  /\ idx' = 1
  /\ original' = << >>
  /\ content' = << >>
  /\ result' = FALSE
  /\ fixed_count' = 0
  /\ opened' = {}
  /\ caught' = {}
  /\ log' = << >>
  /\ reformatted' = {}
  /\ UNCHANGED <<files, disk>>
  /\ UNCHANGED tvars

\* one run, every read and write succeeding
Succeeding ==
  \/ CallFixImports
  \/ SkipFile
  \/ ReadOk
  \/ Substitute
  \/ ReturnUnchanged
  \/ OpenOk
  \/ WriteOk
  \/ Return
  \/ Report
  \/ RunFormatter

Failing ==
  \/ ReadFail
  \/ OpenFail
  \/ WriteFail
  \/ Except

Next == Succeeding \/ Failing

NextRewrite == Succeeding \/ Rerun

\* one run over a tree, reads and writes free to fail
Spec == Init /\ [][Next]_vars

\* one run over a tree, the script never left waiting for the processor
SpecFair == Spec /\ WF_vars(Next)

\* repeated runs over one file of any text, no read or write failing
SpecRewrite == InitRewrite /\ [][NextRewrite]_vars

\* ----------------------------------------------------------- test-direct-mcp
initialize_request ==
  [ jsonrpc |-> "2.0",
    id |-> 1,
    method |-> "initialize",
    params |-> [ protocolVersion |-> "0.1.0",
                 capabilities |-> << >>,
                 clientInfo |-> [ name |-> "test-client",
                                  version |-> "0.1.0" ] ] ]

initialized_notification ==
  [ jsonrpc |-> "2.0", method |-> "initialized", params |-> << >> ]

ping_request ==
  [ jsonrpc |-> "2.0", id |-> 2, method |-> "ping", params |-> << >> ]

\* json.dumps(message) + "\n": a line is its JSON text and whether a newline
\* ends it
LineOf(message) == [text |-> <<message>>, newline |-> TRUE]

\* what readline returns at the end of the file
EmptyLine == [text |-> << >>, newline |-> FALSE]

\* response.strip(): the text without the newline (JSON text neither starts
\* nor ends in white space)
Strip(line) == line.text

\* The order of the statements with the second read placed before the ping.
AfterReadBeforePing(p) ==
  CASE p = "spawn" -> "send_initialize"
    [] p = "send_initialize" -> "read_initialize"
    [] p = "read_initialize" -> "send_initialized"
    [] p = "send_initialized" -> "read_ping"
    [] p = "read_ping" -> "send_ping"
    [] p = "send_ping" -> "close"
    [] p = "close" -> "terminate"
    [] p = "terminate" -> "wait"
    [] p = "wait" -> "done"

\* the statement that follows statement p of test_mcp_server
After(p) ==
  CASE p = "spawn" -> "send_initialize"
    [] p = "send_initialize" -> "read_initialize"
    [] p = "read_initialize" -> "send_initialized"
    [] p = "send_initialized" -> "send_ping"
    [] p = "send_ping" -> "read_ping"
    [] p = "read_ping" -> "close"
    [] p = "close" -> "terminate"
    [] p = "terminate" -> "wait"
    [] p = "wait" -> "done"

\* A write that never notices that the reader is gone.
BrokenNever == FALSE

\* writing to proc.stdin fails: the read end of the pipe went with the subprocess
Broken == child = "exited"

\* A readline that gives up at once on an empty pipe.
EndOfFileWithoutBlocking == outPipe = << >>

\* readline returns "": the pipe is empty and its write end is closed
EndOfFile == outPipe = << >> /\ child = "exited"

\* The line at the far end of the pipe.
NextLineNewest == outPipe[Len(outPipe)]

\* the line readline returns from a pipe that holds one
NextLine == Head(outPipe)

\* a subprocess that answers every line it receives and stays alive
Stub == quota >= 3 /\ ~mayExit

InitTest ==
  /\ files = << >>
  /\ disk = << >>
  /\ start = << >>
  /\ run = 0
  /\ pc = "off"
  /\ idx = 0
  /\ original = << >>
  /\ content = << >>
  /\ result = FALSE
  /\ fixed_count = 0
  /\ opened = {}
  /\ caught = {}
  /\ log = << >>
  /\ reformatted = {}
  /\ tpc = "spawn"
  /\ child = "none"
  /\ quota \in 0..MaxQuota
  /\ mayExit \in BOOLEAN
  /\ inPipe = << >>
  /\ pending = << >>
  /\ outPipe = << >>
  /\ emitted = << >>
  /\ stdinClosed = FALSE
  /\ signalled = FALSE
  /\ events = << >>
  /\ printed = << >>

\* lines 11-17: subprocess.Popen
Spawn ==
  /\ tpc = "spawn"
  /\ child' = "running"
  /\ tpc' = After(tpc)
  /\ UNCHANGED <<quota, mayExit, inPipe, pending, outPipe, emitted,
                 stdinClosed, signalled, events, printed>>
  /\ UNCHANGED rvars

\* proc.stdin.write(json.dumps(message) + "\n"); proc.stdin.flush()
Written(message) ==
  /\ ~Broken
  /\ inPipe' = Append(inPipe, LineOf(message))
  /\ events' = Append(events, [op |-> "write", message |-> message])
  /\ tpc' = After(tpc)
  /\ UNCHANGED <<child, quota, mayExit, pending, outPipe, emitted,
                 stdinClosed, signalled, printed>>
  /\ UNCHANGED rvars

\* lines 35-36
SendInitialize ==
  /\ tpc = "send_initialize"
  /\ Written(initialize_request)

\* lines 50-51
SendInitialized ==
  /\ tpc = "send_initialized"
  /\ Written(initialized_notification)

\* lines 62-63
SendPing ==
  /\ tpc = "send_ping"
  /\ Written(ping_request)

\* lines 35-36, 50-51, 62-63: BrokenPipeError, which nothing catches
BrokenPipe ==
  /\ tpc \in {"send_initialize", "send_initialized", "send_ping"}
  /\ Broken
  /\ tpc' = "crashed"
  /\ UNCHANGED <<child, quota, mayExit, inPipe, pending, outPipe, emitted,
                 stdinClosed, signalled, events, printed>>
  /\ UNCHANGED rvars

\* response = proc.stdout.readline(); print(response.strip()): blocks until
\* the pipe holds a line or is at its end
ReadLine ==
  /\ outPipe # << >> \/ EndOfFile
  /\ LET response == IF EndOfFile THEN EmptyLine ELSE NextLine
     IN /\ printed' = Append(printed, Strip(response))
        /\ outPipe' = IF EndOfFile THEN outPipe ELSE Tail(outPipe)
  /\ events' = Append(events, [op |-> "read"])
  /\ tpc' = After(tpc)
  /\ UNCHANGED <<child, quota, mayExit, inPipe, pending, emitted,
                 stdinClosed, signalled>>
  /\ UNCHANGED rvars

\* lines 39-40
ReadInitialize ==
  /\ tpc = "read_initialize"
  /\ ReadLine

\* lines 66-67
ReadPing ==
  /\ tpc = "read_ping"
  /\ ReadLine

\* line 70: proc.stdin.close()
CloseStdin ==
  /\ tpc = "close"
  /\ stdinClosed' = TRUE
  /\ events' = Append(events, [op |-> "close"])
  /\ tpc' = After(tpc)
  /\ UNCHANGED <<child, quota, mayExit, inPipe, pending, outPipe, emitted,
                 signalled, printed>>
  /\ UNCHANGED rvars

\* line 71: proc.terminate(), which signals a subprocess that still runs
Terminate ==
  /\ tpc = "terminate"
  /\ signalled' = (child = "running")
  /\ events' = Append(events, [op |-> "terminate"])
  /\ tpc' = After(tpc)
  /\ UNCHANGED <<child, quota, mayExit, inPipe, pending, outPipe, emitted,
                 stdinClosed, printed>>
  /\ UNCHANGED rvars

\* line 72: proc.wait() returns once the subprocess has exited
Wait ==
  /\ tpc = "wait"
  /\ child = "exited"
  /\ events' = Append(events, [op |-> "wait"])
  /\ tpc' = After(tpc)
  /\ UNCHANGED <<child, quota, mayExit, inPipe, pending, outPipe, emitted,
                 stdinClosed, signalled, printed>>
  /\ UNCHANGED rvars

\* the subprocess reads one line from its stdin
ChildRead ==
  /\ child = "running"
  /\ inPipe # << >>
  /\ pending' = Append(pending, Head(inPipe))
  /\ inPipe' = Tail(inPipe)
  /\ UNCHANGED <<tpc, child, quota, mayExit, outPipe, emitted, stdinClosed,
                 signalled, events, printed>>
  /\ UNCHANGED rvars

\* the subprocess answers the oldest line it has read with one line
ChildRespond ==
  /\ child = "running"
  /\ pending # << >>
  /\ Len(emitted) < quota
  /\ LET line == LineOf([response |-> Len(emitted) + 1,
                           to |-> Head(pending).text[1].method])
     IN /\ outPipe' = Append(outPipe, line)
        /\ emitted' = Append(emitted, line)
  /\ pending' = Tail(pending)
  /\ UNCHANGED <<tpc, child, quota, mayExit, inPipe, stdinClosed, signalled,
                 events, printed>>
  /\ UNCHANGED rvars

\* the subprocess, silent by now, drops the line it has read
ChildIgnore ==
  /\ child = "running"
  /\ pending # << >>
  /\ Len(emitted) >= quota
  /\ pending' = Tail(pending)
  /\ UNCHANGED <<tpc, child, quota, mayExit, inPipe, outPipe, emitted,
                 stdinClosed, signalled, events, printed>>
  /\ UNCHANGED rvars

\* the subprocess exits: on its own, at the end of its input, or signalled
ChildExit ==
  /\ child = "running"
  /\ \/ mayExit
     \/ stdinClosed /\ inPipe = << >>
     \/ signalled
  /\ child' = "exited"
  /\ UNCHANGED <<tpc, quota, mayExit, inPipe, pending, outPipe, emitted,
                 stdinClosed, signalled, events, printed>>
  /\ UNCHANGED rvars

Script ==
  \/ Spawn
  \/ SendInitialize
  \/ ReadInitialize
  \/ SendInitialized
  \/ SendPing
  \/ ReadPing
  \/ CloseStdin
  \/ Terminate
  \/ Wait
  \/ BrokenPipe

\* the subprocess at work; when it exits on its own is up to it
ChildWork == ChildRead \/ ChildRespond \/ ChildIgnore

\* the signal sent by terminate ends the subprocess
ChildKilled == signalled /\ ChildExit

NextTest == Script \/ ChildWork \/ ChildExit

\* the script against any subprocess
SpecTest == InitTest /\ [][NextTest]_vars

\* the same, both processes scheduled and the signal delivered
SpecTestFair ==
  /\ InitTest
  /\ [][NextTest]_vars
  /\ WF_vars(Script)
  /\ WF_vars(ChildWork)
  /\ WF_vars(ChildKilled)

\* ------------------------------------------------------------ the rewriter
NoPattern(text) == \A r \in 1..NumRules : ~Occurs(Pattern(r), text)

\* text holds rule r's pattern and no match of any other rule
OnlyRule(r, text) ==
  /\ Occurs(Pattern(r), text)
  /\ \A q \in 1..NumRules : q # r => ~Occurs(Pattern(q), text)

\* text with every occurrence of pattern, from the left, replaced by repl
RECURSIVE EveryOccurrenceReplaced(_, _, _)
EveryOccurrenceReplaced(text, pattern, repl) ==
  IF ~Occurs(pattern, text) THEN text
  ELSE LET i == CHOOSE j \in 1..Len(text) :
                  /\ MatchAt(text, pattern, j)
                  /\ \A h \in 1..(j - 1) : ~MatchAt(text, pattern, h)
       IN SubSeq(text, 1, i - 1) \o repl
            \o EveryOccurrenceReplaced(
                 SubSeq(text, i + Len(pattern), Len(text)), pattern, repl)

\* "Fixed: <file i>" was printed in this run
Reported(i) == \E k \in 1..Len(log) : log[k] = <<"Fixed", i>>

\* the bytes of file i on disk are not the ones the run found: its words
\* differ, or the formatter has laid them out anew
Changed(i) == disk[i] # start[i] \/ i \in reformatted

\* the last part of file i's name is .rs
IsRs(i) == SubSeq(files[i], Len(files[i]), Len(files[i])) = <<".rs">>

ResultLine == <<Use, Crate, ErrorMod, "Result", Semi>>

\* C1: when fix_imports returns from a .rs file whose text held rule (P, R)'s
\* pattern and no match of any other rule, the file holds that text with every
\* occurrence of P replaced by R and the call returned True, the file printed
\* as fixed; and the run over the one file 'use crate::error::Result;' leaves
\* 'use mcp_proxy_core::Result;' and reports a total of 1.
C1_SingleRuleRewritten ==
  /\ pc = "ret" =>
       \A r \in 1..NumRules :
         OnlyRule(r, original) =>
           /\ disk[idx] = EveryOccurrenceReplaced(original, Pattern(r),
                                                  Replacement(r))
           /\ result = TRUE
           /\ Reported(idx)
  /\ (pc = "done" /\ IsRs(1) /\ start[1] = ResultLine) =>
       /\ disk[1] = <<Use, Core, "Result", Semi>>
       /\ fixed_count = 1
       /\ log[Len(log) - 1] = <<"Total", 1>>

\* C1's case: a call has returned from a file that held one rule's pattern
\* twice and nothing else.
C1_Witness ==
  /\ pc = "ret"
  /\ result = TRUE
  /\ \E r \in 1..NumRules :
       /\ OnlyRule(r, original)
       /\ original = Pattern(r) \o Pattern(r)

C3_OnlyChangedRsWritten ==
  \A i \in 1..Len(files) :
    /\ i \in opened => IsRs(i) /\ ApplyRules(start[i]) # start[i]
    /\ (~IsRs(i) \/ NoPattern(start[i])) =>
         /\ i \notin opened
         /\ ~Changed(i)
         /\ ~Reported(i)

\* C3: a file is opened for writing only if its name ends in .rs and the rules
\* change its text; a file of another name is never opened for writing, keeps
\* its content byte for byte and is not reported as fixed; a .rs file that
\* holds no rule's pattern is never opened for writing, is not reported as
\* fixed and keeps its content byte for byte until cargo fmt is run at the
\* end of the script, which leaves its words but may lay them out anew.
C3_FormatterMayRewrite ==
  \A i \in 1..Len(files) :
    /\ i \in opened => IsRs(i) /\ ApplyRules(start[i]) # start[i]
    /\ ~IsRs(i) =>
         /\ i \notin opened
         /\ ~Changed(i)
         /\ ~Reported(i)
    /\ (IsRs(i) /\ NoPattern(start[i])) =>
         /\ i \notin opened
         /\ disk[i] = start[i]
         /\ pc # "done" => ~Changed(i)
         /\ ~Reported(i)

\* C3's case: a run has ended over a tree with a file of another name that
\* holds a pattern and a .rs file that holds none, which the formatter has
\* rewritten.
C3_Witness ==
  /\ pc = "done"
  /\ \E i \in 1..Len(files) : ~IsRs(i) /\ ~NoPattern(start[i])
  /\ \E i \in 1..Len(files) :
       IsRs(i) /\ NoPattern(start[i]) /\ i \in reformatted

Rewritten ==
  {i \in 1..Len(files) :
     IsRs(i) /\ i \notin caught /\ ApplyRules(start[i]) # start[i]}

C5_Safe ==
  /\ \A i \in caught : ~Reported(i)
  /\ (pc = "ret" /\ idx \in caught) => result = FALSE
  /\ pc = "walk" =>
       fixed_count = Cardinality({i \in 1..(idx - 1) : Reported(i)})
  /\ pc \in {"fmt", "done"} =>
       /\ \A i \in 1..Len(files) :
            IsRs(i) =>
              \/ Reported(i)
              \/ i \in caught
              \/ ApplyRules(start[i]) = start[i]
       /\ fixed_count = Cardinality({i \in 1..Len(files) : Reported(i)})
       /\ \E k \in 1..Len(log) : log[k] = <<"Total", fixed_count>>

\* C5: a file whose call ended in the except clause is returned False for and
\* not counted; the walk goes on, so at the report every .rs file has been
\* fixed, has raised, or had nothing to change, and fixed_count is the number
\* of files printed as fixed; and every run, whichever files fail, reaches
\* the report and its end.
C5_ErrorsContained == []C5_Safe /\ <>(pc = "done")

\* C5's case: a run has ended in which a file raised and a later file was
\* still fixed.
C5_Witness ==
  /\ pc = "done"
  /\ \E i \in caught : \E j \in 1..Len(files) : j > i /\ Reported(j)

\* C10: a file whose call ended in the except clause holds the content it had
\* before the call.
C10_FailureLeavesFileIntact ==
  \A i \in caught : disk[i] = start[i]

\* --------------------------------------------------------- the smoke tester
IsPrefix(s, t) == Len(s) <= Len(t) /\ SubSeq(t, 1, Len(s)) = s

Writes == SelectSeq(events, LAMBDA e : e.op = "write")
Reads == SelectSeq(events, LAMBDA e : e.op = "read")

\* the I/O operations of a whole execution, as the claim lists them
WholeExecution ==
  << [op |-> "write", message |-> initialize_request],
     [op |-> "read"],
     [op |-> "write", message |-> initialized_notification],
     [op |-> "write", message |-> ping_request],
     [op |-> "read"],
     [op |-> "close"],
     [op |-> "terminate"],
     [op |-> "wait"] >>

\* C6: the script's I/O operations are at every moment the first ones of:
\* write initialize (id 1), read, write initialized (no id), write ping
\* (id 2), read, close stdin, terminate, wait; an execution that ends has
\* done them all, three writes and two reads.
C6_EventOrder ==
  /\ IsPrefix(events, WholeExecution)
  /\ "id" \notin DOMAIN initialized_notification
  /\ tpc = "done" =>
       /\ events = WholeExecution
       /\ Len(Writes) = 3
       /\ Len(Reads) = 2

\* C6's case: an execution has ended.
C6_Witness == tpc = "done" /\ Len(events) = 8

\* the script's next operation cannot go ahead
Blocked == ~(outPipe # << >> \/ EndOfFile)

\* what holds at every moment of an execution against such a subprocess
C7_Safe ==
  Stub =>
    /\ tpc # "crashed"
    /\ Len(printed) >= 1 =>
         /\ printed[1] = Strip(emitted[1])
         /\ Len(Writes) >= 1
    /\ tpc \in {"send_initialized", "send_ping"} => ~Broken
    /\ Len(Writes) = 2 => Len(Reads) = 1
    /\ Len(printed) >= 2 =>
         /\ printed[2] = Strip(emitted[2])
         /\ Writes[Len(Writes)].message = ping_request
    /\ tpc = "done" => Len(printed) = 2 /\ child = "exited" /\ stdinClosed

\* C7: against a subprocess that answers every line it receives with one
\* line, the script prints the first line the subprocess wrote once it has
\* sent initialize, is never held up between the notification and the ping,
\* prints the second line the subprocess wrote once it has sent the ping,
\* and ends with stdin closed and the subprocess gone, however the two are
\* interleaved.
C7_StubScenario == []C7_Safe /\ (Stub ~> (tpc = "done"))

\* C7's case: the execution against such a subprocess has ended, the third
\* answer written and left unread.
C7_Witness ==
  /\ Stub
  /\ tpc = "done"
  /\ Len(emitted) = 3
  /\ printed = <<Strip(emitted[1]), Strip(emitted[2])>>

\* C8: while the subprocess stays alive and has written no line, the script
\* does not get past the read after initialize: nothing is printed, nothing
\* more is sent, no signal is sent, the script does not end; and one that
\* falls silent after one line holds the script in the read after the ping.
C8_SilentSubprocessBlocks ==
  /\ (~mayExit /\ quota = 0) =>
       /\ tpc \in {"spawn", "send_initialize", "read_initialize"}
       /\ printed = << >>
       /\ Len(Writes) <= 1
       /\ ~signalled
  /\ (~mayExit /\ quota = 1) =>
       /\ tpc \in {"spawn", "send_initialize", "read_initialize",
                   "send_initialized", "send_ping", "read_ping"}
       /\ Len(printed) <= 1
       /\ ~signalled

\* C8's case: the silent subprocess has taken the request and dropped it,
\* and the script sits in the read.
C8_Witness ==
  /\ ~mayExit
  /\ quota = 0
  /\ tpc = "read_initialize"
  /\ inPipe = << >>
  /\ pending = << >>
  /\ Blocked

EndSequence == {"close", "terminate", "wait", "done"}

\* C9: once the subprocess has exited with fewer than three messages written,
\* no step writes another message or enters the end sequence, and the step
\* that leaves a write statement leaves it for the crash.
C9_EarlyExitCrashes ==
  [][ (child = "exited" /\ Len(Writes) < 3) =>
        /\ Len(Writes') = Len(Writes)
        /\ tpc' \notin EndSequence
        /\ (tpc \in {"send_initialize", "send_initialized", "send_ping"}
              /\ tpc' # tpc) => tpc' = "crashed" ]_vars

\* C9's case: the script has crashed on its second write.
C9_Witness ==
  /\ tpc = "crashed"
  /\ Len(Writes) = 1
  /\ Len(Reads) = 1

====
